---------------------------- MODULE Spec2Model ----------------------------
(***************************************************************************)
(* realtime-ear-ai: the live eye-closure monitor (CamLive.py) and the      *)
(* telemetry simulator with its buffered persistence (simulate_db.py).     *)
(*                                                                         *)
(* The programs are modelled each under a specification of its own:        *)
(*   SpecCam  the monitoring loop of CamLive.py, one action per frame;     *)
(*   SpecSim  simulate_db.py from main(): run_batch and run_live, the      *)
(*            store (Trajets, Mesures) and the connection's transaction;   *)
(*   SpecGen  generate_measurement called directly on one state dict;      *)
(*   SpecGenSeq, SpecEpisode  the generator called once per second, as     *)
(*            run_batch and run_live call it;                              *)
(*   SpecEye  eye_aspect_ratio and the percentage of one eye.              *)
(* Times of CamLive.py are in milliseconds, times of simulate_db.py in     *)
(* seconds, eye openness of the generator in tenths of a percent.          *)
(***************************************************************************)
EXTENDS Integers, Sequences, FiniteSets, TLC

VARIABLES
    \* ---- CamLive.py
    cam_pc,             \* "loop" | "done"
    cam_clock,          \* time.time(), ms
    closed_start_time,  \* None or ms
    music_busy,         \* pygame.mixer.music.get_busy()
    alert_tick,         \* the alert branch (l.115-127) ran on the latest frame
    frames,             \* history: the frames processed so far
    load_tick,          \* music.load (l.26) was called on the latest frame
    cam_exit,           \* why the loop ended, "" while it runs
    one_eye,            \* one eye measured on its own: distances, ratio, percent
    \* ---- simulate_db.py
    pc,                 \* position in main / run_batch / run_live
    cmd,                \* sys.argv[1]
    duration_s,         \* the argument of run_batch / run_live
    clock,              \* datetime.now(), s
    s,                  \* the loop variable of run_batch / run_live
    state,              \* the generator's state dict
    buffer,             \* run_live: buffer
    all_mesures,        \* run_live: all_mesures; run_batch: mesures
    total_inserted,     \* run_live: total_inserted
    pending,            \* rows executed on the open connection, not committed
    db,                 \* table Mesures, rows in insertion order
    trajet,             \* the row of table Trajets, or NoTrajet
    interrupts,         \* KeyboardInterrupts delivered so far
    cause,              \* why the process ended
    final_flushes,      \* times the close path's flush (l.439-444) ran
    final_writes,       \* bulk writes committed by the close path's flush
    flush_log,          \* history: the size of each bulk write run_live committed
    \* ---- generate_measurement called directly
    g_state,            \* the state dict passed to it
    g_rows,             \* the tuples it returned, in call order
    g_last,             \* the branches its latest call took
    g_calls             \* how many calls it has served

camvars == <<cam_pc, cam_clock, closed_start_time, music_busy, alert_tick, frames,
             load_tick, cam_exit, one_eye>>
simvars == <<pc, cmd, duration_s, clock, s, state, buffer, all_mesures,
             total_inserted, pending, db, trajet, interrupts, cause,
             final_flushes, final_writes, flush_log>>
genvars == <<g_state, g_rows, g_last, g_calls>>
vars == <<camvars, simvars, genvars>>

\* Python's None, for values that are otherwise naturals.
None == -1

Min(a, b) == IF a < b THEN a ELSE b
Max(a, b) == IF a > b THEN a ELSE b

(***************************************************************************)
(* CamLive.py                                                              *)
(***************************************************************************)

\* Bound of the monitoring loop's model: frames per run.
MaxFrames == 4

\* Program constants, EAR in thousandths, durations in ms.
MAX_EAR == 350
CLOSED_EYE_THRESHOLD_EAR == 150
ALERT_DURATION == 2000

\* Eye aspect ratios a frame may yield (thousandths): below the threshold, and open.
Ears == {100, 200}
\* Time between two frames (ms): the loop runs as fast as the camera and the
\* face mesh allow, so the spacing varies from frame to frame.
Spacings == {500, 1000, 2000}

\* eye_aspect_ratio (l.43-48) from the three distances it measures, in
\* thousandths rounded down; 0.0 when the corner points coincide (C = 0).
EyeAspectRatio(A, B, C) ==
    IF C # 0 THEN ((A + B) * 1000) \div (2 * C) ELSE 0

\* The mapping of l.107-108 without its min(..., 100).
EyePercent_NoCap(ear) ==
    IF ear < CLOSED_EYE_THRESHOLD_EAR THEN 0
    ELSE (ear * 1000) \div MAX_EAR

\* l.107-108: 0.0 below the threshold, else ear / MAX_EAR * 100 capped at 100
\* (in tenths of a percent, rounded down).
EyePercent(ear) ==
    IF ear < CLOSED_EYE_THRESHOLD_EAR THEN 0
    ELSE Min((ear * 1000) \div MAX_EAR, 1000)

\* start_alert_sound: load and play unless already playing; an exception of
\* load/play is caught and printed, and leaves the mixer as it was.
StartAlertSound(busy, load_ok) ==
    IF busy THEN TRUE ELSE load_ok

\* A start_alert_sound that loads the file whatever the mixer is doing.
LoadsSound_Always(busy) == TRUE

\* l.25-26: music.load is called when the mixer is not playing.
LoadsSound(busy) == ~busy

\* stop_alert_sound
StopAlertSound == FALSE

\* A clean-up that runs only where the loop ends on a path the code names
\* (break or the except clause).
Finally_OnlyCaught(busy, reason) ==
    IF reason = "exception" THEN busy ELSE StopAlertSound

\* finally (l.157-160): whatever ended the loop, the block runs and calls
\* stop_alert_sound.
Finally(busy, reason) == StopAlertSound

\* The ways the loop ends: the q key (l.152-153), no frame (l.75-77),
\* KeyboardInterrupt (l.155-156), any other exception (not caught, l.157).
ExitReasons == {"q", "no_frame", "keyboard_interrupt", "exception"}

\* An elapsed-time test that needs more than the alert duration.
AlertDue_Strict(now, start) == now - start > ALERT_DURATION

\* The elapsed-time test of l.114.
AlertDue(now, start) == now - start >= ALERT_DURATION

\* The else branch of l.128-130: an open eye clears the timer.
OpenEyesTimer(start) == None

\* One pass of the loop on a frame with a face (l.89-137).
CamFaceFrame(l_ear, r_ear, dt, load_ok) ==
    LET now == cam_clock + dt
        left_percent == EyePercent(l_ear)
        right_percent == EyePercent(r_ear)
    IN
    /\ cam_pc = "loop"
    /\ Len(frames) < MaxFrames
    /\ cam_clock' = now
    /\ frames' = Append(frames, [face |-> TRUE, left |-> left_percent,
                                 right |-> right_percent, t |-> now])
    /\ IF left_percent = 0 /\ right_percent = 0
       THEN IF closed_start_time = None
            THEN /\ closed_start_time' = now
                 /\ alert_tick' = FALSE
                 /\ load_tick' = FALSE
                 /\ UNCHANGED music_busy
            ELSE IF AlertDue(now, closed_start_time)
                 THEN /\ alert_tick' = TRUE
                      /\ load_tick' = LoadsSound(music_busy)
                      /\ music_busy' = StartAlertSound(music_busy, load_ok)
                      /\ UNCHANGED closed_start_time
                 ELSE /\ alert_tick' = FALSE
                      /\ load_tick' = FALSE
                      /\ UNCHANGED <<closed_start_time, music_busy>>
       ELSE /\ closed_start_time' = OpenEyesTimer(closed_start_time)
            /\ music_busy' = StopAlertSound
            /\ alert_tick' = FALSE
            /\ load_tick' = FALSE
    /\ cam_pc' = "loop"
    /\ UNCHANGED <<cam_exit, one_eye>>
    /\ UNCHANGED <<simvars, genvars>>

\* One pass of the loop on a frame without a face: l.89 is false, the whole
\* block l.90-137 is skipped.
CamNoFaceFrame(dt) ==
    /\ cam_pc = "loop"
    /\ Len(frames) < MaxFrames
    /\ cam_clock' = cam_clock + dt
    /\ frames' = Append(frames, [face |-> FALSE, left |-> None,
                                 right |-> None, t |-> cam_clock + dt])
    /\ alert_tick' = FALSE
    /\ load_tick' = FALSE
    /\ UNCHANGED <<closed_start_time, music_busy, cam_pc, cam_exit, one_eye>>
    /\ UNCHANGED <<simvars, genvars>>

\* The loop ends (no frame, the q key, KeyboardInterrupt, another exception)
\* and the finally block runs.
CamExit(reason) ==
    /\ cam_pc = "loop"
    /\ cam_pc' = "done"
    /\ cam_exit' = reason
    /\ music_busy' = Finally(music_busy, reason)
    /\ UNCHANGED <<cam_clock, closed_start_time, alert_tick, frames, load_tick, one_eye>>
    /\ UNCHANGED <<simvars, genvars>>

\* The largest distance (pixels) between two landmarks of the eye measured
\* on its own.
MaxDist == 6

\* l.105-108 for one eye: the ratio of its landmarks and its percentage.
EyeMeasure(A, B, C) ==
    LET ear == EyeAspectRatio(A, B, C) IN
    /\ one_eye' = [A |-> A, B |-> B, C |-> C, ear |-> ear, percent |-> EyePercent(ear)]
    /\ UNCHANGED <<cam_pc, cam_clock, closed_start_time, music_busy, alert_tick,
                   frames, load_tick, cam_exit>>
    /\ UNCHANGED <<simvars, genvars>>

NextEye ==
    \E A \in 0..MaxDist, B \in 0..MaxDist, C \in 0..MaxDist : EyeMeasure(A, B, C)

NextCam ==
    \/ \E l \in Ears, r \in Ears, dt \in Spacings, ok \in BOOLEAN :
           CamFaceFrame(l, r, dt, ok)
    \/ \E dt \in Spacings : CamNoFaceFrame(dt)
    \/ \E reason \in ExitReasons : CamExit(reason)

(***************************************************************************)
(* simulate_db.py: generate_measurement                                    *)
(***************************************************************************)

\* Program constants: the closed-eye threshold (tenths of a percent) and the
\* number of closed seconds before the alert flags are raised.
CLOSED_EYE_THRESHOLD == 150
ALERT_DURATION_S == 2

\* state = {}: a key that is absent reads as its .get default (0); base_hr
\* and drowsy_total are 0 until set.
EmptyState ==
    [drowsy_remaining |-> 0, drowsy_total |-> 0, closed_seconds |-> 0,
     base_hr |-> 0]

\* round(x, 1) of the ramp's 10.0 * remaining / total, in tenths.
RampLevel(remaining, total) == (200 * remaining + total) \div (2 * total)

\* An eye step whose ramp branch also rolls for a new episode.
EyeStep_RestartsInRamp(st, d) ==
    IF st.drowsy_remaining > 0
    THEN [ouverture |-> Max(0, RampLevel(st.drowsy_remaining, st.drowsy_total) + d.noise),
          drowsy_remaining |-> IF d.start THEN d.duration ELSE st.drowsy_remaining - 1,
          drowsy_total |-> IF d.start THEN d.duration ELSE st.drowsy_total]
    ELSE [ouverture |-> Max(0, Min(1000, d.normal)),
          drowsy_remaining |-> IF d.start THEN d.duration ELSE st.drowsy_remaining,
          drowsy_total |-> IF d.start THEN d.duration ELSE st.drowsy_total]

\* l.245-261: the openness (tenths of a percent) and the episode counters.
\* d holds the random draws of the call: noise (gauss(0, 2)) and normal
\* (gauss(82, 6)) in tenths, start (random() < 0.02), duration (randint(2, 8)),
\* base_hr (randint(65, 80)).
EyeStep(st, d) ==
    IF st.drowsy_remaining > 0
    THEN [ouverture |-> Max(0, RampLevel(st.drowsy_remaining, st.drowsy_total) + d.noise),
          drowsy_remaining |-> st.drowsy_remaining - 1,
          drowsy_total |-> st.drowsy_total]
    ELSE [ouverture |-> Max(0, Min(1000, d.normal)),
          drowsy_remaining |-> IF d.start THEN d.duration ELSE st.drowsy_remaining,
          drowsy_total |-> IF d.start THEN d.duration ELSE st.drowsy_total]

\* l.271-274: the count of consecutive closed samples.
ClosedSeconds(ouverture, st) ==
    IF ouverture < CLOSED_EYE_THRESHOLD THEN st.closed_seconds + 1 ELSE 0

\* math.sin, in thousandths, of an angle in milliradians (x >= 0): range
\* reduction to a quarter period, then the series x - x^3/6 + x^5/120 - x^7/5040.
SinQuarter(y) ==
    LET y2 == (y * y) \div 1000
        y3 == (y2 * y) \div 1000
        y5 == (y3 * y2) \div 1000
        y7 == (y5 * y2) \div 1000
    IN Min(1000, y - (y3 \div 6) + (y5 \div 120) - (y7 \div 5040))

SinHalf(r) == SinQuarter(IF r <= 1571 THEN r ELSE 3142 - r)

SinMilli(x) ==
    LET r == x % 6283 IN
    IF r <= 3142 THEN SinHalf(r) ELSE 0 - SinHalf(r - 3142)

\* round(x) of a value given in tenths: to the nearest integer, a tie to the
\* even one.
RoundTenths(x10) ==
    LET f == x10 \div 10
        m == x10 % 10
    IN IF m < 5 THEN f
       ELSE IF m > 5 THEN f + 1
       ELSE IF f % 2 = 0 THEN f ELSE f + 1

\* l.266-267 without the clamp (the clamp is what keeps the rate in range).
HeartRate_NoClamp(t_ms, base_hr, d) ==
    RoundTenths(10 * base_hr + ((5 * SinMilli(t_ms \div 30)) \div 100) + d.hr_noise)

\* l.266-267: base_hr + 5 sin(t_ms / 30000) + gauss(0, 2), rounded, clamped
\* to [50, 130]. d.hr_noise is the gauss draw in tenths.
HeartRate(t_ms, base_hr, d) ==
    Max(50, Min(130,
        RoundTenths(10 * base_hr + ((5 * SinMilli(t_ms \div 30)) \div 100) + d.hr_noise)))

\* l.285 and l.295: the test that selects the drowsy steering draws. It reads
\* state["drowsy_remaining"] as l.245-258 left it.
DrowsySteering(drowsy_remaining) == drowsy_remaining > 0

\* l.284-290: the wheel angle in tenths of a degree. d.angle_z is the standard
\* normal draw that gauss scales by 12 (drowsy) or 3.
SteeringAngle(t_ms, drowsy, d) ==
    LET base_angle == ((15 * SinMilli(t_ms \div 8)) \div 100)
                      + ((8 * SinMilli(t_ms \div 20)) \div 100)
        sigma == IF drowsy THEN 12 ELSE 3
    IN Max(-5400, Min(5400, base_angle + 10 * sigma * d.angle_z))

\* l.295-299: the grip force in tenths of a newton. d.force_z is the standard
\* normal draw of gauss(5, 3) (drowsy) or gauss(20, 4).
SteeringForce(drowsy, d) ==
    LET force == IF drowsy THEN 10 * (5 + 3 * d.force_z)
                           ELSE 10 * (20 + 4 * d.force_z)
    IN Max(0, Min(800, force))

\* generate_measurement(t_ms, state): the tuple returned and the state dict
\* as the call leaves it. The offset is copied into the tuple as given; no
\* statement of the function compares it with an earlier one. ramp and
\* drowsy_steering record which branch of l.245 and of l.285/l.295 ran.
GenerateMeasurement(t_ms, st, d) ==
    LET eye == EyeStep(st, d)
        closed == ClosedSeconds(eye.ouverture, st)
        eyes_closed_long == closed >= ALERT_DURATION_S
        base_hr == IF st.base_hr = 0 THEN d.base_hr ELSE st.base_hr
        drowsy == DrowsySteering(eye.drowsy_remaining)
    IN [row |-> [temps_ms |-> t_ms,
                 ouverture_oeil |-> eye.ouverture,
                 rythme_cardiaque |-> HeartRate(t_ms, base_hr, d),
                 alerte_visuelle |-> IF eyes_closed_long THEN 1 ELSE 0,
                 alerte_sonore |-> IF eyes_closed_long THEN 1 ELSE 0,
                 angle_volant |-> SteeringAngle(t_ms, drowsy, d),
                 force_volant |-> SteeringForce(drowsy, d)],
        state |-> [drowsy_remaining |-> eye.drowsy_remaining,
                   drowsy_total |-> eye.drowsy_total,
                   closed_seconds |-> closed,
                   base_hr |-> base_hr],
        ramp |-> st.drowsy_remaining > 0,
        drowsy_steering |-> drowsy]

\* The largest magnitude, in standard deviations, of a gauss draw the model
\* enumerates. random.gauss returns mu + z * sigma with
\* z = cos(2 pi u) * sqrt(-2 ln(1 - v)) and 1 - v >= 2^-53, so |z| < 8.58.
MaxSigma == 9

\* The draws of one call, all its gauss draws z standard deviations from
\* their mean: noise is gauss(0, 2) and normal gauss(82, 6), in tenths.
Draw(z, start, duration, base_hr) ==
    [noise |-> 20 * z, normal |-> 820 + 60 * z, start |-> start,
     duration |-> duration, base_hr |-> base_hr, hr_noise |-> 20 * z,
     angle_z |-> z, force_z |-> z]

\* Bounds of the direct calls: how many, and the largest offset (in seconds).
MaxCalls == 3
MaxOffsetS == 1

\* The draws a direct call may see: the gauss draws at either extreme or at
\* their mean, an episode of 2 or 3 samples starting or not.
GenDraws ==
    {Draw(z, start, duration, 65) :
        z \in {0 - MaxSigma, 0, MaxSigma}, start \in BOOLEAN, duration \in {2, 3}}

\* A caller passes any offset: the function takes t_ms as a plain argument.
GenCall(t_ms, d) ==
    LET r == GenerateMeasurement(t_ms, g_state, d) IN
    /\ Len(g_rows) < MaxCalls
    /\ g_state' = r.state
    /\ g_rows' = Append(g_rows, r.row)
    /\ g_last' = [ramp |-> r.ramp, drowsy_steering |-> r.drowsy_steering]
    /\ g_calls' = g_calls + 1
    /\ UNCHANGED <<camvars, simvars>>

NextGen ==
    \E sec \in 0..MaxOffsetS, d \in GenDraws : GenCall(sec * 1000, d)

\* The generator driven as run_batch and run_live drive it (l.339-341,
\* l.419-421): one call per second of the session, sample k at offset 1000 k.
MaxTicks == 7

\* The draws of a tick: the gauss draws at their mean or 5 standard deviations
\* under it (a ramp sample of 0.0), an episode of 2 or 4 samples starting or
\* not.
SeqDraws ==
    {Draw(z, start, duration, 70) :
        z \in {-5, 0}, start \in BOOLEAN, duration \in {2, 4}}

GenTick(d) ==
    LET r == GenerateMeasurement(1000 * Len(g_rows), g_state, d) IN
    /\ Len(g_rows) < MaxTicks
    /\ g_state' = r.state
    /\ g_rows' = Append(g_rows, r.row)
    /\ g_last' = [ramp |-> r.ramp, drowsy_steering |-> r.drowsy_steering]
    /\ g_calls' = g_calls + 1
    /\ UNCHANGED <<camvars, simvars>>

NextGenSeq ==
    \E d \in SeqDraws : GenTick(d)

\* The state dict alone over a longer session: the same calls, one per
\* second, the returned tuples not kept.
MaxSteps == 12

\* The draws of such a call: the gauss draws at either extreme or at their
\* mean, an episode of any length randint(2, 8) returns starting or not.
EpisodeDraws ==
    {Draw(z, start, duration, 70) :
        z \in {0 - MaxSigma, 0, MaxSigma}, start \in BOOLEAN, duration \in 2..8}

EpisodeTick(d) ==
    LET r == GenerateMeasurement(1000 * g_calls, g_state, d) IN
    /\ g_calls < MaxSteps
    /\ g_state' = r.state
    /\ g_last' = [ramp |-> r.ramp, drowsy_steering |-> r.drowsy_steering]
    /\ g_calls' = g_calls + 1
    /\ UNCHANGED <<g_rows, camvars, simvars>>

NextEpisode ==
    \E d \in EpisodeDraws : EpisodeTick(d)

(***************************************************************************)
(* simulate_db.py: main, run_batch, run_live and the store                 *)
(***************************************************************************)

\* Program constants.
FLUSH_INTERVAL_S == 10
DEFAULT_BATCH_S == 120
DEFAULT_LIVE_S == 60

\* Bounds: the durations given on the command line run from -MaxNegDuration
\* to MaxDuration; a datetime.now() comes up to MaxLag seconds after the
\* previous reading of the clock.
MaxDuration == 12
MaxNegDuration == 2
MaxLag == 1

\* The draws of the generator inside run_batch / run_live: eyes open, no
\* episode (the content of a sample plays no part in buffering).
SimDraws == {Draw(0, FALSE, 2, 70)}

NoTrajet == [exists |-> FALSE, debut_log |-> 0, fin_set |-> FALSE, fin_log |-> 0]

\* The positions of run_live inside its try block (l.413-434).
TryPcs == {"gen", "flush_exec", "flush_commit", "flush_ack", "sleep"}
\* The positions of run_live after the try block (l.439-453).
ClosePcs == {"close", "final_commit", "final_ack", "close_update",
             "summary"}

\* main(): cmd = sys.argv[1], duration = int(sys.argv[2]) when given;
\* `duration or 120` takes the default for a missing argument and for 0.
Main(c, given, d) ==
    /\ pc = "main"
    /\ cmd' = c
    /\ duration_s' = IF given /\ d # 0 THEN d
                     ELSE IF c = "batch" THEN DEFAULT_BATCH_S ELSE DEFAULT_LIVE_S
    /\ pc' = IF c = "batch" THEN "batch_open" ELSE "live_open"
    /\ UNCHANGED <<clock, s, state, buffer, all_mesures, total_inserted, pending,
                   db, trajet, interrupts, cause, final_flushes, final_writes, flush_log>>
    /\ UNCHANGED <<camvars, genvars>>

\* main() with an unknown command: prints the commands and returns.
MainUnknown ==
    /\ pc = "main"
    /\ cmd' = "unknown"
    /\ pc' = "exited"
    /\ cause' = "usage"
    /\ UNCHANGED <<duration_s, clock, s, state, buffer, all_mesures,
                   total_inserted, pending, db, trajet, interrupts,
                   final_flushes, final_writes, flush_log>>
    /\ UNCHANGED <<camvars, genvars>>

\* ---- run_batch

\* l.331-333: debut = now - duration_s, fin = now, and the trip is inserted
\* with both.
BatchOpen(lag) ==
    /\ pc = "batch_open"
    /\ clock' = clock + lag
    /\ trajet' = [exists |-> TRUE, debut_log |-> clock - duration_s,
                  fin_set |-> TRUE, fin_log |-> clock + lag]
    /\ s' = 0
    /\ state' = EmptyState
    /\ all_mesures' = <<>>
    /\ pc' = "batch_loop"
    /\ UNCHANGED <<cmd, duration_s, buffer, total_inserted, pending, db,
                   interrupts, cause, final_flushes, final_writes, flush_log>>
    /\ UNCHANGED <<camvars, genvars>>

\* l.339-342: one iteration of `for s in range(duration_s)`.
BatchGen(d) ==
    LET r == GenerateMeasurement(s * 1000, state, d) IN
    /\ pc = "batch_loop"
    /\ s < duration_s
    /\ state' = r.state
    /\ all_mesures' = Append(all_mesures, r.row)
    /\ s' = s + 1
    /\ UNCHANGED <<pc, cmd, duration_s, clock, buffer, total_inserted, pending,
                   db, trajet, interrupts, cause, final_flushes, final_writes, flush_log>>
    /\ UNCHANGED <<camvars, genvars>>

\* l.344 into bulk_insert_mesures: `if not rows: return`, else executemany
\* on a new connection; an Error leaves through the finally, which closes
\* the connection, and ends the process.
BatchExecute(ok) ==
    /\ pc = "batch_loop"
    /\ s >= duration_s
    /\ IF all_mesures = <<>>
       THEN /\ pc' = "batch_summary"
            /\ UNCHANGED <<pending, cause>>
       ELSE IF ok
            THEN /\ pending' = all_mesures
                 /\ pc' = "batch_commit"
                 /\ UNCHANGED cause
            ELSE /\ pc' = "exited"
                 /\ cause' = "db_error"
                 /\ UNCHANGED pending
    /\ UNCHANGED <<cmd, duration_s, clock, s, state, buffer, all_mesures,
                   total_inserted, db, trajet, interrupts, final_flushes,
                   final_writes, flush_log>>
    /\ UNCHANGED <<camvars, genvars>>

\* connection.commit() of bulk_insert_mesures, called from run_batch.
BatchCommit(ok) ==
    /\ pc = "batch_commit"
    /\ pending' = <<>>
    /\ IF ok
       THEN /\ db' = db \o pending
            /\ pc' = "batch_summary"
            /\ UNCHANGED cause
       ELSE /\ pc' = "exited"
            /\ cause' = "db_error"
            /\ UNCHANGED db
    /\ UNCHANGED <<cmd, duration_s, clock, s, state, buffer, all_mesures,
                   total_inserted, trajet, interrupts, final_flushes,
                   final_writes, flush_log>>
    /\ UNCHANGED <<camvars, genvars>>

\* l.347: _print_summary(mesures); min() of an empty list raises ValueError.
BatchSummary ==
    /\ pc = "batch_summary"
    /\ pc' = "exited"
    /\ cause' = IF all_mesures = <<>> THEN "ValueError" ELSE "return"
    /\ UNCHANGED <<cmd, duration_s, clock, s, state, buffer, all_mesures,
                   total_inserted, pending, db, trajet, interrupts,
                   final_flushes, final_writes, flush_log>>
    /\ UNCHANGED <<camvars, genvars>>

\* ---- run_live

\* l.401-411: the trip is inserted with debut = now and no fin_log.
LiveOpen ==
    /\ pc = "live_open"
    /\ trajet' = [exists |-> TRUE, debut_log |-> clock, fin_set |-> FALSE,
                  fin_log |-> 0]
    /\ s' = 0
    /\ state' = EmptyState
    /\ buffer' = <<>>
    /\ all_mesures' = <<>>
    /\ total_inserted' = 0
    /\ pc' = "gen"
    /\ UNCHANGED <<cmd, duration_s, clock, pending, db, interrupts, cause,
                   final_flushes, final_writes, flush_log>>
    /\ UNCHANGED <<camvars, genvars>>

\* A flush test on s instead of s + 1.
FlushDue_OffByOne(n) == n % FLUSH_INTERVAL_S = 0

\* l.427: `if (s + 1) % FLUSH_INTERVAL_S == 0`.
FlushDue(n) == (n + 1) % FLUSH_INTERVAL_S = 0

\* l.414-427: the next s of range(duration_s), its sample appended to buffer
\* and all_mesures, and the test of the flush interval.
LiveGen(d) ==
    LET r == GenerateMeasurement(s * 1000, state, d) IN
    /\ pc = "gen"
    /\ s < duration_s
    /\ state' = r.state
    /\ buffer' = Append(buffer, r.row)
    /\ all_mesures' = Append(all_mesures, r.row)
    /\ pc' = IF FlushDue(s) THEN "flush_exec" ELSE "sleep"
    /\ UNCHANGED <<cmd, duration_s, clock, s, total_inserted, pending, db,
                   trajet, interrupts, cause, final_flushes, final_writes, flush_log>>
    /\ UNCHANGED <<camvars, genvars>>

\* range(duration_s) is exhausted: the for loop and the try block end.
LiveLoopEnd ==
    /\ pc = "gen"
    /\ s >= duration_s
    /\ pc' = "close"
    /\ UNCHANGED <<cmd, duration_s, clock, s, state, buffer, all_mesures,
                   total_inserted, pending, db, trajet, interrupts, cause,
                   final_flushes, final_writes, flush_log>>
    /\ UNCHANGED <<camvars, genvars>>

\* A flush that empties the buffer when the write starts.
FlushExecute_ClearsFirst(ok) ==
    /\ pc = "flush_exec"
    /\ buffer' = <<>>
    /\ IF ok
       THEN /\ pending' = buffer
            /\ pc' = "flush_commit"
            /\ UNCHANGED cause
       ELSE /\ pc' = "exited"
            /\ cause' = "db_error"
            /\ UNCHANGED pending
    /\ UNCHANGED <<cmd, duration_s, clock, s, state, all_mesures,
                   total_inserted, db, trajet, interrupts, final_flushes,
                   final_writes, flush_log>>
    /\ UNCHANGED <<camvars, genvars>>

\* l.428 into bulk_insert_mesures(buffer): `if not rows: return`, else
\* executemany on a new connection. An Error leaves bulk_insert_mesures
\* through its finally and run_live through its try (which catches
\* KeyboardInterrupt only): the process ends with the traceback.
FlushExecute(ok) ==
    /\ pc = "flush_exec"
    /\ IF buffer = <<>>
       THEN /\ pc' = "flush_ack"
            /\ UNCHANGED <<pending, cause>>
       ELSE IF ok
            THEN /\ pending' = buffer
                 /\ pc' = "flush_commit"
                 /\ UNCHANGED cause
            ELSE /\ pc' = "exited"
                 /\ cause' = "db_error"
                 /\ UNCHANGED pending
    /\ UNCHANGED <<cmd, duration_s, clock, s, state, buffer, all_mesures,
                   total_inserted, db, trajet, interrupts, final_flushes,
                   final_writes, flush_log>>
    /\ UNCHANGED <<camvars, genvars>>

\* connection.commit() of the timed flush.
FlushCommit(ok) ==
    /\ pc = "flush_commit"
    /\ pending' = <<>>
    /\ IF ok
       THEN /\ db' = db \o pending
            /\ flush_log' = Append(flush_log, Len(pending))
            /\ pc' = "flush_ack"
            /\ UNCHANGED cause
       ELSE /\ pc' = "exited"
            /\ cause' = "db_error"
            /\ UNCHANGED <<db, flush_log>>
    /\ UNCHANGED <<cmd, duration_s, clock, s, state, buffer, all_mesures,
                   total_inserted, trajet, interrupts, final_flushes,
                   final_writes>>
    /\ UNCHANGED <<camvars, genvars>>

\* l.429-432: bulk_insert_mesures has returned; the count is added and the
\* buffer replaced by an empty list.
FlushAck ==
    /\ pc = "flush_ack"
    /\ total_inserted' = total_inserted + Len(buffer)
    /\ buffer' = <<>>
    /\ pc' = "sleep"
    /\ UNCHANGED <<cmd, duration_s, clock, s, state, all_mesures, pending, db,
                   trajet, interrupts, cause, final_flushes, final_writes, flush_log>>
    /\ UNCHANGED <<camvars, genvars>>

\* l.434: time.sleep(1), then the next iteration.
LiveSleep ==
    /\ pc = "sleep"
    /\ clock' = clock + 1
    /\ s' = s + 1
    /\ pc' = "gen"
    /\ UNCHANGED <<cmd, duration_s, state, buffer, all_mesures, total_inserted,
                   pending, db, trajet, interrupts, cause, final_flushes,
                   final_writes, flush_log>>
    /\ UNCHANGED <<camvars, genvars>>

\* An interrupt handler that goes straight to the closing of the trip.
LiveInterrupt_SkipsFlush ==
    /\ pc \in TryPcs
    /\ interrupts' = interrupts + 1
    /\ pending' = <<>>
    /\ pc' = "close_update"
    /\ UNCHANGED <<cmd, duration_s, clock, s, state, buffer, all_mesures,
                   total_inserted, db, trajet, cause, final_flushes,
                   final_writes, flush_log>>
    /\ UNCHANGED <<camvars, genvars>>

\* l.436-437: KeyboardInterrupt raised anywhere inside the try block. An open
\* connection is closed by bulk_insert_mesures' finally, which drops what it
\* had not committed; run_live goes on after the except clause.
LiveInterrupt ==
    /\ pc \in TryPcs
    /\ interrupts' = interrupts + 1
    /\ pending' = <<>>
    /\ pc' = "close"
    /\ UNCHANGED <<cmd, duration_s, clock, s, state, buffer, all_mesures,
                   total_inserted, db, trajet, cause, final_flushes,
                   final_writes, flush_log>>
    /\ UNCHANGED <<camvars, genvars>>

\* l.439-441: `if buffer:` and, when it holds rows, executemany on a new
\* connection.
CloseFlush(ok) ==
    /\ pc = "close"
    /\ final_flushes' = final_flushes + 1
    /\ IF buffer = <<>>
       THEN /\ pc' = "close_update"
            /\ UNCHANGED <<pending, cause>>
       ELSE IF ok
            THEN /\ pending' = buffer
                 /\ pc' = "final_commit"
                 /\ UNCHANGED cause
            ELSE /\ pc' = "exited"
                 /\ cause' = "db_error"
                 /\ UNCHANGED pending
    /\ UNCHANGED <<cmd, duration_s, clock, s, state, buffer, all_mesures,
                   total_inserted, db, trajet, interrupts, final_writes, flush_log>>
    /\ UNCHANGED <<camvars, genvars>>

\* connection.commit() of the final flush.
FinalCommit(ok) ==
    /\ pc = "final_commit"
    /\ pending' = <<>>
    /\ IF ok
       THEN /\ db' = db \o pending
            /\ flush_log' = Append(flush_log, Len(pending))
            /\ final_writes' = final_writes + 1
            /\ pc' = "final_ack"
            /\ UNCHANGED cause
       ELSE /\ pc' = "exited"
            /\ cause' = "db_error"
            /\ UNCHANGED <<db, final_writes, flush_log>>
    /\ UNCHANGED <<cmd, duration_s, clock, s, state, buffer, all_mesures,
                   total_inserted, trajet, interrupts, final_flushes>>
    /\ UNCHANGED <<camvars, genvars>>

\* l.442-444: the count is added; the buffer is left as it is.
FinalAck ==
    /\ pc = "final_ack"
    /\ total_inserted' = total_inserted + Len(buffer)
    /\ pc' = "close_update"
    /\ UNCHANGED <<cmd, duration_s, clock, s, state, buffer, all_mesures,
                   pending, db, trajet, interrupts, cause, final_flushes,
                   final_writes, flush_log>>
    /\ UNCHANGED <<camvars, genvars>>

\* l.447-448: fin = datetime.now(); update_trajet_fin writes it.
CloseUpdate(lag, ok) ==
    /\ pc = "close_update"
    /\ clock' = clock + lag
    /\ IF ok
       THEN /\ trajet' = [trajet EXCEPT !.fin_set = TRUE, !.fin_log = clock + lag]
            /\ pc' = "summary"
            /\ UNCHANGED cause
       ELSE /\ pc' = "exited"
            /\ cause' = "db_error"
            /\ UNCHANGED trajet
    /\ UNCHANGED <<cmd, duration_s, s, state, buffer, all_mesures,
                   total_inserted, pending, db, interrupts, final_flushes,
                   final_writes, flush_log>>
    /\ UNCHANGED <<camvars, genvars>>

\* l.449-453: the closing prints and, if all_mesures, the summary.
LiveSummary ==
    /\ pc = "summary"
    /\ pc' = "exited"
    /\ cause' = "return"
    /\ UNCHANGED <<cmd, duration_s, clock, s, state, buffer, all_mesures,
                   total_inserted, pending, db, trajet, interrupts,
                   final_flushes, final_writes, flush_log>>
    /\ UNCHANGED <<camvars, genvars>>

\* KeyboardInterrupt raised after the try block (l.439-453): nothing catches
\* it, the process ends where it stands.
CloseInterrupt ==
    /\ pc \in ClosePcs
    /\ interrupts' = interrupts + 1
    /\ pending' = <<>>
    /\ pc' = "exited"
    /\ cause' = "KeyboardInterrupt"
    /\ UNCHANGED <<cmd, duration_s, clock, s, state, buffer, all_mesures,
                   total_inserted, db, trajet, final_flushes, final_writes, flush_log>>
    /\ UNCHANGED <<camvars, genvars>>

\* int(sys.argv[2]): the durations tried, and the 125 s of a long session.
Durations == ((0 - MaxNegDuration)..MaxDuration) \cup {125}

NextSim ==
    \/ \E c \in {"batch", "live"}, given \in BOOLEAN, d \in Durations :
           Main(c, given, d)
    \/ MainUnknown
    \/ \E lag \in 0..MaxLag : BatchOpen(lag)
    \/ \E d \in SimDraws : BatchGen(d)
    \/ \E ok \in BOOLEAN : BatchExecute(ok)
    \/ \E ok \in BOOLEAN : BatchCommit(ok)
    \/ BatchSummary
    \/ LiveOpen
    \/ \E d \in SimDraws : LiveGen(d)
    \/ LiveLoopEnd
    \/ \E ok \in BOOLEAN : FlushExecute(ok)
    \/ \E ok \in BOOLEAN : FlushCommit(ok)
    \/ FlushAck
    \/ LiveSleep
    \/ LiveInterrupt
    \/ \E ok \in BOOLEAN : CloseFlush(ok)
    \/ \E ok \in BOOLEAN : FinalCommit(ok)
    \/ FinalAck
    \/ \E lag \in 0..MaxLag, ok \in BOOLEAN : CloseUpdate(lag, ok)
    \/ LiveSummary
    \/ CloseInterrupt

(***************************************************************************)
(* The specifications                                                      *)
(***************************************************************************)

Init ==
    /\ cam_pc = "loop"
    /\ cam_clock = 0
    /\ closed_start_time = None
    /\ music_busy = FALSE
    /\ alert_tick = FALSE
    /\ frames = <<>>
    /\ load_tick = FALSE
    /\ cam_exit = ""
    /\ one_eye = [A |-> 0, B |-> 0, C |-> 0, ear |-> 0, percent |-> 0]
    /\ pc = "main"
    /\ cmd = ""
    /\ duration_s = 0
    /\ clock = 0
    /\ s = 0
    /\ state = EmptyState
    /\ buffer = <<>>
    /\ all_mesures = <<>>
    /\ total_inserted = 0
    /\ pending = <<>>
    /\ db = <<>>
    /\ trajet = NoTrajet
    /\ interrupts = 0
    /\ cause = ""
    /\ final_flushes = 0
    /\ final_writes = 0
    /\ flush_log = <<>>
    /\ g_state = EmptyState
    /\ g_rows = <<>>
    /\ g_last = [ramp |-> FALSE, drowsy_steering |-> FALSE]
    /\ g_calls = 0

SpecCam == Init /\ [][NextCam]_vars
SpecEye == Init /\ [][NextEye]_vars
SpecSim == Init /\ [][NextSim]_vars
SpecGen == Init /\ [][NextGen]_vars
SpecGenSeq == Init /\ [][NextGenSeq]_vars
SpecEpisode == Init /\ [][NextEpisode]_vars

(***************************************************************************)
(* Properties                                                              *)
(***************************************************************************)

\* How many times a row occurs in a sequence of rows.
Count(row, rows) == Cardinality({i \in 1..Len(rows) : rows[i] = row})

\* Every row of `rows` is committed in the table at least once.
Stored(rows) == \A i \in 1..Len(rows) : Count(rows[i], db) >= 1

\* A processed frame on which both eyes reported 0%.
ClosedFrame(f) == f.face /\ f.left = 0 /\ f.right = 0

AllFaces == \A i \in 1..Len(frames) : frames[i].face

\* The frames i..n all report both eyes at 0% and span at least 2.0 s
\* between the timestamps of the first and the last of them.
ClosedSpanEndingAt(n) ==
    \E i \in 1..n :
        /\ \A j \in i..n : ClosedFrame(frames[j])
        /\ frames[n].t - frames[i].t >= 2000

\* C1: over frames that all carry a face, whatever their spacing, the alert
\* branch runs on a frame exactly when that frame ends a span of at least
\* 2.0 s (by timestamps) on all of whose frames both eyes reported 0%; the
\* sound plays only then; and a frame with an eye above 0% leaves the
\* closure timer unset and the sound stopped.
C1_AlertIffClosedSpan ==
    (frames # <<>> /\ AllFaces) =>
        LET n == Len(frames) IN
        /\ alert_tick <=> ClosedSpanEndingAt(n)
        /\ music_busy => ClosedSpanEndingAt(n)
        /\ ~ClosedFrame(frames[n]) =>
               (closed_start_time = None /\ ~music_busy /\ ~alert_tick)

\* C1's case: the alert raised on the third or a later frame of a closure
\* whose last two frames are less than 2.0 s apart.
C1_Witness ==
    /\ AllFaces
    /\ Len(frames) >= 3
    /\ alert_tick
    /\ frames[Len(frames)].t - frames[Len(frames) - 1].t < 2000

\* C2: after a frame without a face the closure timer is unset and the
\* alert sound is off, as after a frame with open eyes.
C2_NoFaceResets ==
    (cam_pc = "loop" /\ frames # <<>> /\ ~frames[Len(frames)].face) =>
        (closed_start_time = None /\ ~music_busy)

\* C3: once run_live has closed the trip, every sample it appended to the
\* buffer is in the table exactly once.
C3_PersistedExactlyOnce ==
    (cmd = "live" /\ trajet.fin_set) =>
        \A i \in 1..Len(all_mesures) : Count(all_mesures[i], db) = 1

\* C4: in run_live, a step on which the bulk write fails leaves the buffer as
\* it was; the buffer loses rows only by being emptied, and only once all its
\* rows are committed; a flush of an empty buffer writes nothing.
C4_BufferKeptUntilAcknowledged ==
    [][cmd = "live" =>
          /\ (cause # "db_error" /\ cause' = "db_error") => buffer' = buffer
          /\ (buffer' # buffer /\ Len(buffer') <= Len(buffer)) =>
                 (buffer' = <<>> /\ Stored(buffer))
          /\ (pc \in {"flush_exec", "close"} /\ buffer = <<>>) =>
                 (db' = db /\ pending' = pending /\ buffer' = buffer)]_vars

\* C4's case: a timed flush of a buffer that holds rows has failed.
C4_Witness ==
    /\ cmd = "live"
    /\ cause = "db_error"
    /\ final_flushes = 0
    /\ buffer # <<>>

\* C5: the failure of a timed flush's bulk write does not end run_live.
C5_FlushFailureDoesNotCrash ==
    ~(cmd = "live" /\ pc = "exited" /\ cause = "db_error" /\ final_flushes = 0)

\* C6: when the trip's end timestamp is in the store, every sample generated
\* for the trip is committed.
C6_ClosedImpliesPersisted ==
    trajet.fin_set => Stored(all_mesures)

\* C7: a run_live that was interrupted and did not fail on the store ends
\* with the close path run once and the end timestamp written, however many
\* interrupts arrived.
C7_StopClosesOnce ==
    (cmd = "live" /\ interrupts >= 1 /\ pc = "exited" /\ cause # "db_error") =>
        (trajet.fin_set /\ final_flushes = 1)

\* C8: a stored end timestamp is not before the trip's start timestamp.
C8_EndNotBeforeStart ==
    trajet.fin_set => trajet.fin_log >= trajet.debut_log

\* C9: the offsets of the samples generate_measurement returns on one state
\* are strictly increasing (a call with an offset that is not greater than
\* the previous one returns no sample).
C9_OffsetsStrictlyIncrease ==
    \A i \in 1..(Len(g_rows) - 1) : g_rows[i].temps_ms < g_rows[i + 1].temps_ms

\* C10: when run_live is about to write the end timestamp, and once it has,
\* the close path's flush has run exactly once, it has made one bulk write
\* if the buffer held rows and none otherwise, and the rows of the buffer
\* are committed.
C10_OneFinalFlush ==
    (cmd = "live" /\ (pc = "close_update" \/ trajet.fin_set)) =>
        /\ final_flushes = 1
        /\ final_writes = (IF buffer = <<>> THEN 0 ELSE 1)
        /\ Stored(buffer)
        /\ pending = <<>>

\* C10's case: the trip closed on an empty buffer after samples were flushed
\* on the timer.
C10_Witness ==
    /\ cmd = "live"
    /\ trajet.fin_set
    /\ buffer = <<>>
    /\ all_mesures # <<>>

\* C11: a run_live that ran its whole range without interrupt or write
\* failure and closed the trip, with N samples and flush interval F, has made
\* floor(N / F) timed bulk writes of F rows each, then a final one of N mod F
\* rows (none when that is 0), and total_inserted = N rows are in the table.
C11_FlushSchedule ==
    (cmd = "live" /\ trajet.fin_set /\ interrupts = 0) =>
        LET N == Len(all_mesures)
            q == N \div FLUSH_INTERVAL_S
            r == N % FLUSH_INTERVAL_S
        IN
        /\ N = Max(duration_s, 0)
        /\ Len(flush_log) = q + (IF r > 0 THEN 1 ELSE 0)
        /\ \A i \in 1..q : flush_log[i] = FLUSH_INTERVAL_S
        /\ r > 0 => flush_log[q + 1] = r
        /\ final_flushes = 1
        /\ final_writes = (IF r > 0 THEN 1 ELSE 0)
        /\ total_inserted = N
        /\ Len(db) = N

\* C11's case: the 125-sample session, 12 timed flushes of 10 and a final
\* flush of 5.
C11_Witness ==
    /\ cmd = "live"
    /\ trajet.fin_set
    /\ interrupts = 0
    /\ duration_s = 125
    /\ flush_log = [i \in 1..13 |-> IF i <= 12 THEN 10 ELSE 5]
    /\ total_inserted = 125

\* The openness values and the alert flags of the first n samples of a
\* session, in order.
Openness(n) == [i \in 1..n |-> g_rows[i].ouverture_oeil]
AlertFlags(n) == [i \in 1..n |-> g_rows[i].alerte_visuelle]

\* C12: at one sample per second, the openness sequence 82, 82, 0, 0, 0, 0, 82
\* (closure detected at t = 2) carries the alert flag first on the sample of
\* t = 4, then on that of t = 5, and on no other sample.
C12_AlertAfterTwoSeconds ==
    (Len(g_rows) = 7 /\ Openness(7) = <<820, 820, 0, 0, 0, 0, 820>>) =>
        /\ AlertFlags(7) = <<0, 0, 0, 0, 1, 1, 0>>
        /\ \A i \in 1..7 : g_rows[i].alerte_sonore = g_rows[i].alerte_visuelle

\* A step of the live loop that processes one more frame.
FrameStep == Len(frames') = Len(frames) + 1

\* C13: on a closed-eyes frame past the threshold while the sound is already
\* playing, start_alert_sound leaves it playing and does not load it again;
\* the file is loaded only on an alerting frame that finds the mixer silent.
C13_AlertOnIdempotent ==
    [][FrameStep =>
        /\ (alert_tick' /\ music_busy) => (~load_tick' /\ music_busy')
        /\ load_tick' => (alert_tick' /\ ~music_busy)]_vars

\* The latest frame alerted while the sound was already playing: nothing was
\* loaded and the sound still plays.
C13_Witness ==
    /\ cam_pc = "loop"
    /\ alert_tick
    /\ music_busy
    /\ ~load_tick

\* C14: after a frame that alerted, a further alerting frame of the same
\* closure does not try to load and play the sound again, whether or not the
\* earlier attempt succeeded; the loop goes on after a failed attempt.
C14_NoRetryWhileAlerting ==
    [][(FrameStep /\ alert_tick /\ alert_tick') =>
        (~load_tick' /\ cam_pc' = "loop")]_vars

\* C20: once the live loop has ended, whatever ended it, the alert sound is
\* not playing.
C20_ExitStopsSound ==
    cam_pc = "done" => ~music_busy

\* The loop was ended by an uncaught exception right after a frame that
\* alerted with the sound already playing.
C20_Witness ==
    /\ cam_pc = "done"
    /\ cam_exit = "exception"
    /\ alert_tick
    /\ ~load_tick

\* C17: the percentage of an eye is 0 when its ratio (A + B) / (2 C) is below
\* 0.15, 100 when it is at or above 0.35, in between the ratio scaled by
\* 100 / 0.35 and within [0, 100]; an eye whose corner points coincide
\* (C = 0) has ratio 0 and percentage 0.
C17_PercentMapping ==
    LET sum == one_eye.A + one_eye.B IN
    /\ one_eye.percent >= 0 /\ one_eye.percent <= 1000
    /\ one_eye.C = 0 => (one_eye.ear = 0 /\ one_eye.percent = 0)
    /\ (one_eye.C # 0 /\ 1000 * sum < 150 * 2 * one_eye.C) => one_eye.percent = 0
    /\ (one_eye.C # 0 /\ 1000 * sum >= 350 * 2 * one_eye.C) => one_eye.percent = 1000
    /\ (one_eye.C # 0 /\ 1000 * sum >= 150 * 2 * one_eye.C /\ 1000 * sum < 350 * 2 * one_eye.C) =>
           /\ 350 * one_eye.percent <= 1000 * one_eye.ear
           /\ 1000 * one_eye.ear < 350 * (one_eye.percent + 1)
           /\ 2 * one_eye.C * one_eye.ear <= 1000 * sum
           /\ 1000 * sum < 2 * one_eye.C * (one_eye.ear + 1)

\* An eye with coincident corner points and its lids apart has been measured.
C17_Witness ==
    /\ one_eye.C = 0
    /\ one_eye.A + one_eye.B > 0
    /\ one_eye.percent = 0

\* C15: every sample returned has its openness within [0, 100] %, its heart
\* rate within [50, 130], its wheel angle within [-540, 540] degrees and its
\* grip force within [0, 80] N, in a normal state and inside an episode.
C15_SampleRanges ==
    \A i \in 1..Len(g_rows) :
        /\ g_rows[i].ouverture_oeil >= 0 /\ g_rows[i].ouverture_oeil <= 1000
        /\ g_rows[i].rythme_cardiaque >= 50 /\ g_rows[i].rythme_cardiaque <= 130
        /\ g_rows[i].angle_volant >= -5400 /\ g_rows[i].angle_volant <= 5400
        /\ g_rows[i].force_volant >= 0 /\ g_rows[i].force_volant <= 800

\* A ramp sample drawn at the low extreme: openness, heart rate and force all
\* sit on their lower limit.
C15_Witness ==
    /\ g_rows # <<>>
    /\ g_last.ramp
    /\ g_rows[Len(g_rows)].ouverture_oeil = 0
    /\ g_rows[Len(g_rows)].rythme_cardiaque = 50
    /\ g_rows[Len(g_rows)].force_volant = 0

\* C18: a call draws the drowsy steering (angle noise of 12, force around 5 N)
\* exactly when its openness came from the episode ramp.
C18_SteeringFollowsRamp ==
    g_calls > 0 => (g_last.drowsy_steering <=> g_last.ramp)

\* The episode counters are within 0 <= drowsy_remaining <= drowsy_total, and
\* drowsy_total, once set, is a value of randint(2, 8).
EpisodeCountersInRange ==
    /\ g_state.drowsy_remaining >= 0
    /\ g_state.drowsy_remaining <= g_state.drowsy_total
    /\ g_state.drowsy_total # 0 => g_state.drowsy_total \in 2..8

\* A call made inside an episode takes the ramp branch, takes one off
\* drowsy_remaining and starts nothing; a call made outside takes the normal
\* branch and either starts an episode with both counters equal or leaves
\* the counters alone.
EpisodeStep ==
    IF g_state.drowsy_remaining > 0
    THEN /\ g_last'.ramp
         /\ g_state'.drowsy_remaining = g_state.drowsy_remaining - 1
         /\ g_state'.drowsy_total = g_state.drowsy_total
    ELSE /\ ~g_last'.ramp
         /\ \/ /\ g_state'.drowsy_remaining = 0
               /\ g_state'.drowsy_total = g_state.drowsy_total
            \/ /\ g_state'.drowsy_remaining = g_state'.drowsy_total
               /\ g_state'.drowsy_total \in 2..8

\* C19: from an empty state, 0 <= drowsy_remaining <= drowsy_total with
\* drowsy_total in 2..8 once set; after an episode starts, the next
\* drowsy_total calls are ramp calls counting drowsy_remaining down by one
\* to 0, and none of them starts an episode.
C19_EpisodeCountdown ==
    []EpisodeCountersInRange /\ [][EpisodeStep]_vars

\* An episode of 8 samples has just run to its end.
C19_Witness ==
    /\ g_state.drowsy_total = 8
    /\ g_state.drowsy_remaining = 0
    /\ g_last.ramp

=============================================================================
